---- MODULE Spec2Model ----
(***************************************************************************)
(* A model of FmpConnector (src/FmpConnector.py): a client that builds one *)
(* URL per call, performs one blocking HTTP GET, and coerces the JSON body *)
(* into a pandas DataFrame; plus draw_chart, which slices a date-indexed   *)
(* price table and renders it.                                             *)
(*                                                                         *)
(* Every public method is one atomic action (the program is synchronous    *)
(* and single-threaded).  The transport's answer to the request of a call  *)
(* is an input of the action.  After a call the caller either drops the    *)
(* result (Drop) or, for a price table, hands it to draw_chart.            *)
(***************************************************************************)
EXTENDS Integers, Sequences, FiniteSets, TLC

VARIABLES
    self,       \* the client object the caller holds, NoClient before construction
    op,         \* the method called last
    args,       \* its arguments
    response,   \* what the transport answered to its request
    outcome,    \* "returned" or "raised"
    exc,        \* the exception that left the method, None if it returned
    ret,        \* the value returned
    sent,       \* the URLs requests.get was called with during the call, in order
    completed,  \* how many of these requests came back with a response
    printed,    \* what the call printed, in order
    dfReads,    \* the accesses draw_chart made to its table, in order
    figure      \* the figure draw_chart built

vars == <<self, op, args, response, outcome, exc, ret, sent, completed, printed,
          dfReads, figure>>

-----------------------------------------------------------------------------
(* Bounds and input sets *)

\* Longest list of observations a response body carries.
MaxObs == 3

None == "None"

ApiKeys == {"demo", "expired"}
Symbols == {"AAPL", "MSFT"}
Limits == {5, 10}
StatusCodes == {200, 401}

\* Dates the observations of a response carry.
ObsDates == {"2023-01-02", "2023-01-03", "2023-01-04"}
\* Dates a caller passes as start or end: the above, one before, one after.
ArgDates == {"2023-01-01", "2023-01-02", "2023-01-03", "2023-01-04", "2023-01-05"}

Range(s) == {s[i] : i \in 1..Len(s)}

\* str(limit), as the f-strings format it.
Str(n) == CASE n = 5 -> "5" [] n = 10 -> "10" [] OTHER -> "?"

-----------------------------------------------------------------------------
(* JSON values, as response.json() yields them *)

JNull == [type |-> "null"]
JString == [type |-> "string"]
JList(keys, items) == [type |-> "list", keys |-> keys, items |-> items]
JObject(keys, fields) == [type |-> "object", keys |-> keys, fields |-> fields]

ObsKeys == <<"date", "open", "high", "low", "close", "volume">>

\* The i-th observation of a body: its prices and volume are i, so that rows
\* of one body differ even when their dates agree.
Obs(d, i) == [date |-> d, open |-> i, high |-> i, low |-> i, close |-> i, volume |-> i]

ObsList(ds) == JList(ObsKeys, [i \in 1..Len(ds) |-> Obs(ds[i], i)])

DateSeqs == UNION {[1..n -> ObsDates] : n \in 0..MaxObs}

ErrorObject == JObject(<<"Error Message">>, [k \in {"Error Message"} |-> JString])

Historical(list) ==
    JObject(<<"symbol", "historical">>,
            [k \in {"symbol", "historical"} |-> IF k = "symbol" THEN JString ELSE list])

\* Observations without a date, and with a date that is no date.
NoDateList == JList(<<"close">>, <<[close |-> 1]>>)
BadDateList == ObsList(<<"n/a">>)

JsonValues ==
    {JNull, JString, ErrorObject}
    \cup {ObsList(ds) : ds \in DateSeqs}
    \cup {Historical(ObsList(ds)) : ds \in DateSeqs}
    \cup {Historical(NoDateList), Historical(BadDateList), Historical(ErrorObject)}

TextBody == [kind |-> "text"]
JsonBody(v) == [kind |-> "json", value |-> v]
Bodies == {TextBody} \cup {JsonBody(v) : v \in JsonValues}

Unsent == [state |-> "unsent"]
TransportFailure == [state |-> "failed"]
Received(status, body) == [state |-> "received", status_code |-> status, body |-> body]
Responses ==
    {TransportFailure} \cup {Received(s, b) : s \in StatusCodes, b \in Bodies}

-----------------------------------------------------------------------------
(* Python values a method returns *)

PyNone == [tag |-> "NoneType"]
PyInt(n) == [tag |-> "int", value |-> n]
\* The class pandas.DataFrame itself, not an instance of it.
DataFrameClass == [tag |-> "type", name |-> "DataFrame"]

NoAttrs == [k \in {} |-> None]

DataFrame(index, columns, rows, attrs) ==
    [tag |-> "DataFrame", index |-> index, columns |-> columns, rows |-> rows,
     attrs |-> attrs]

\* pd.DataFrame()
EmptyDataFrame == DataFrame(<<>>, <<>>, <<>>, NoAttrs)

\* DataFrame.empty: some axis has length 0.
IsEmptyTable(v) == v.tag = "DataFrame" /\ (Len(v.index) = 0 \/ Len(v.columns) = 0)

\* The labels of a RangeIndex 0..n-1, written as strings so that a transposed
\* table's columns are of one type with the label 'info'.
Digits == <<"0", "1", "2", "3", "4", "5", "6", "7", "8", "9">>
RangeIndex(n) == [i \in 1..n |-> Digits[i]]

\* pd.DataFrame.from_dict(data) with the default orient, that is
\* pd.DataFrame(data): ok = FALSE stands for ValueError.
from_dict(data) ==
    CASE data.type = "null" -> [ok |-> TRUE, df |-> EmptyDataFrame]
      [] data.type = "string" -> [ok |-> FALSE, df |-> EmptyDataFrame]
      [] data.type = "list" ->
            [ok |-> TRUE,
             df |-> DataFrame(RangeIndex(Len(data.items)),
                              IF Len(data.items) = 0 THEN <<>> ELSE data.keys,
                              data.items, NoAttrs)]
      [] data.type = "object" ->
            LET lists == {k \in Range(data.keys) : data.fields[k].type = "list"}
                lens == {Len(data.fields[k].items) : k \in lists}
            IN  IF data.keys = <<>> THEN [ok |-> TRUE, df |-> EmptyDataFrame]
                ELSE IF lists = {} \/ Cardinality(lens) > 1
                     \* all scalar values and no index, or arrays of unequal length
                     THEN [ok |-> FALSE, df |-> EmptyDataFrame]
                ELSE LET n == CHOOSE l \in lens : TRUE
                     IN  [ok |-> TRUE,
                          df |-> DataFrame(RangeIndex(n), data.keys,
                                   [i \in 1..n |->
                                      [k \in Range(data.keys) |->
                                         IF k \in lists THEN data.fields[k].items[i]
                                         ELSE data.fields[k]]],
                                   NoAttrs)]

\* df.T
Transpose(df) ==
    DataFrame(df.columns, df.index,
              [j \in 1..Len(df.columns) |->
                 [l \in Range(df.index) |->
                    df.rows[CHOOSE i \in 1..Len(df.index) : df.index[i] = l][df.columns[j]]]],
              df.attrs)

\* df.rename(columns={old: new})
RenameColumn(df, old, new) ==
    DataFrame(df.index,
              [j \in 1..Len(df.columns) |-> IF df.columns[j] = old THEN new ELSE df.columns[j]],
              [i \in 1..Len(df.rows) |->
                 [c \in {IF k = old THEN new ELSE k : k \in DOMAIN df.rows[i]} |->
                    IF c = new /\ old \in DOMAIN df.rows[i] THEN df.rows[i][old]
                    ELSE df.rows[i][c]]],
              df.attrs)

\* df.attrs[key] = value
SetAttr(df, key, value) == [df EXCEPT !.attrs = (key :> value) @@ df.attrs]

\* Calendar dates: the day a date string names, and the timestamps of a day.
\* A timestamp is twice the day number for midnight, plus one for the last
\* instant of the day, so that the two bounds of a day differ.
Parseable(s) == s \in ArgDates
DayOf(s) ==
    CASE s = "2023-01-01" -> 1 [] s = "2023-01-02" -> 2 [] s = "2023-01-03" -> 3
      [] s = "2023-01-04" -> 4 [] s = "2023-01-05" -> 5
Midnight(day) == 2 * day
EndOfDay(day) == 2 * day + 1

\* pd.to_datetime on one date string ('yyyy-MM-dd'): midnight of that day.
to_datetime(s) == Midnight(DayOf(s))

\* df[col] = pd.to_datetime(df[col]), for a column that parses.
ConvertColumn(df, col) ==
    [df EXCEPT !.rows = [i \in 1..Len(df.rows) |->
                           [df.rows[i] EXCEPT ![col] = to_datetime(df.rows[i][col])]]]

Without(seq, x) == SelectSeq(seq, LAMBDA c : c # x)

\* df.set_index(col, drop = FALSE): the column stays a column too.
set_index_keep(df, col) ==
    DataFrame([i \in 1..Len(df.rows) |-> df.rows[i][col]], df.columns, df.rows, df.attrs)

\* df.set_index(col): the column becomes the index and is dropped from the
\* columns; attrs are carried over to the new table.
set_index(df, col) ==
    DataFrame([i \in 1..Len(df.rows) |-> df.rows[i][col]],
              Without(df.columns, col),
              [i \in 1..Len(df.rows) |->
                 [c \in DOMAIN df.rows[i] \ {col} |-> df.rows[i][c]]],
              df.attrs)

-----------------------------------------------------------------------------
(* URLs and the endpoint tables of the methods *)

\* https://financialmodelingprep.com/<path>?<query>: the path as its
\* segments, the query as its key=value pairs in order.
URL(path, query) == [host |-> "financialmodelingprep.com", path |-> path, query |-> query]

test_endpoint(apikey) == URL(<<"api", "v3", "profile", "AAPL">>, <<<<"apikey", apikey>>>>)

company_info_dict(symbol, limit, apikey) ==
    ("company_profile" :>
        URL(<<"api", "v3", "profile", symbol>>, <<<<"apikey", apikey>>>>))
 @@ ("company_rating" :>
        URL(<<"api", "v3", "rating", symbol>>, <<<<"apikey", apikey>>>>))
 @@ ("historical_rating" :>
        URL(<<"api", "v3", "historical-rating", symbol>>,
            <<<<"limit", Str(limit)>>, <<"apikey", apikey>>>>))
 @@ ("recommendations" :>
        URL(<<"api", "v3", "analyst-stock-recommendations", symbol>>,
            <<<<"limit", Str(limit)>>, <<"apikey", apikey>>>>))

\* One statement URL: every template of report_type_dict has this shape.
StatementURL(name, symbol, period, limit, apikey) ==
    URL(<<"api", "v3", name, symbol>>,
        <<<<"period", period>>, <<"limit", Str(limit)>>, <<"apikey", apikey>>>>)

report_type_dict(symbol, period, limit, apikey) ==
    ("balance_statement" :>
        <<StatementURL("balance-sheet-statement", symbol, period, limit, apikey),
          StatementURL("balance-sheet-statement-as-reported", symbol, period, limit, apikey)>>)
 @@ ("income_statement" :>
        <<StatementURL("income-statement", symbol, period, limit, apikey),
          StatementURL("income-statement-as-reported", symbol, period, limit, apikey)>>)
 @@ ("cashflow_statement" :>
        <<StatementURL("cash-flow-statement", symbol, period, limit, apikey),
          StatementURL("cash-flow-statement-as-reported", symbol, period, limit, apikey)>>)
 @@ ("full_statement" :>
        <<StatementURL("financial-statement-full-as-reported", symbol, period, limit, apikey)>>)

\* The period check with one more period let through.
period_options_lax == {"annual", "quarter", "monthly"}

period_options == {"annual", "quarter"}

asset_type_dict(apikey) ==
    ("forex" :>
        URL(<<"api", "v3", "symbol", "available-forex-currency-pairs">>, <<<<"apikey", apikey>>>>))
 @@ ("stock" :>
        URL(<<"api", "v3", "stock", "list">>, <<<<"apikey", apikey>>>>))
 @@ ("commodities" :>
        URL(<<"api", "v3", "symbol", "available-commodities">>, <<<<"apikey", apikey>>>>))
 @@ ("crypto" :>
        URL(<<"api", "v3", "symbol", "available-cryptocurrencies">>, <<<<"apikey", apikey>>>>))

\* The two news URLs of one market: the general feed, and the feed of one
\* symbol (the query key of the symbol is 'tickers' for stock, else 'symbol').
NewsURLs(version, name, key, symbol, limit, apikey) ==
    <<URL(<<"api", version, name>>, <<<<"limit", Str(limit)>>, <<"apikey", apikey>>>>),
      URL(<<"api", version, name>>,
          <<<<key, symbol>>, <<"limit", Str(limit)>>, <<"apikey", apikey>>>>)>>

market_type_dict(symbol, limit, apikey) ==
    ("stock" :> NewsURLs("v3", "stock_news", "tickers", symbol, limit, apikey))
 @@ ("forex" :> NewsURLs("v4", "forex_news", "symbol", symbol, limit, apikey))
 @@ ("crypto" :> NewsURLs("v4", "crypto_news", "symbol", symbol, limit, apikey))

daily_prices_endpoint(symbol, apikey) ==
    URL(<<"api", "v3", "historical-price-full", symbol>>, <<<<"apikey", apikey>>>>)

sentiment_endpoint(symbol, limit, apikey) ==
    URL(<<"api", "v4", "historical", "social-sentiment">>,
        <<<<"symbol", symbol>>, <<"limit", Str(limit)>>, <<"apikey", apikey>>>>)

-----------------------------------------------------------------------------
(* What a call leaves behind *)

Returned(value, s, c, p) ==
    [outcome |-> "returned", exc |-> None, ret |-> value, sent |-> s, completed |-> c,
     printed |-> p]

Raised(e, s, c, p) ==
    [outcome |-> "raised", exc |-> e, ret |-> PyNone, sent |-> s, completed |-> c,
     printed |-> p]

\* print(f"'{value}' is not valid ... choose from possible options [...]")
InvalidOption(param, value, options) ==
    [what |-> "invalid option", param |-> param, value |-> value, options |-> options]

\* print(data)
PrintData(data) == [what |-> "data", data |-> data]

\* requests.get(endpoint) with a retry: two requests sent.
requests_get_retry(endpoint, resp) ==
    [sent |-> <<endpoint, endpoint>>,
     completed |-> IF resp.state = "received" THEN 2 ELSE 0,
     exc |-> IF resp.state = "failed" THEN "ConnectionError"
             ELSE IF resp.body.kind = "text" THEN "JSONDecodeError" ELSE None,
     data |-> IF resp.state = "received" /\ resp.body.kind = "json"
              THEN resp.body.value ELSE JNull]

\* requests.get(endpoint).json(): one request; a transport failure raises
\* out of requests.get, a body that is no JSON raises out of .json().
requests_get(endpoint, resp) ==
    [sent |-> <<endpoint>>,
     completed |-> IF resp.state = "received" THEN 1 ELSE 0,
     exc |-> IF resp.state = "failed" THEN "ConnectionError"
             ELSE IF resp.body.kind = "text" THEN "JSONDecodeError" ELSE None,
     data |-> IF resp.state = "received" /\ resp.body.kind = "json"
              THEN resp.body.value ELSE JNull]

-----------------------------------------------------------------------------
(* The fetch methods: each yields what the call leaves behind *)

\* FmpConnector.__init__: the probe request, then print('Connected') or
\* print(response.json()).  Nothing is caught.
init_probe(apikey, resp) ==
    LET url == test_endpoint(apikey)
    IN  IF resp.state = "failed" THEN Raised("ConnectionError", <<url>>, 0, <<>>)
        ELSE IF resp.status_code = 200
             THEN Returned(PyNone, <<url>>, 1, <<[what |-> "Connected"]>>)
        ELSE IF resp.body.kind = "text" THEN Raised("JSONDecodeError", <<url>>, 1, <<>>)
        ELSE Returned(PyNone, <<url>>, 1, <<PrintData(resp.body.value)>>)

get_company_info(apikey, symbol, limit, info_type, resp) ==
    LET dict == company_info_dict(symbol, limit, apikey)
        valid == info_type \in DOMAIN dict
        \* first try: a KeyError of the lookup is caught and reported
        g == IF valid THEN requests_get(dict[info_type], resp)
             ELSE [sent |-> <<>>, completed |-> 0, exc |-> None, data |-> JNull]
        p == IF valid THEN <<>>
             ELSE <<InvalidOption("info_type", info_type,
                        <<"company_profile", "company_rating", "historical_rating",
                          "recommendations">>)>>
        \* second try: a ValueError of the coercion is caught and data printed
        f == from_dict(g.data)
    IN  IF g.exc # None THEN Raised(g.exc, g.sent, g.completed, p)
        ELSE IF ~f.ok
             THEN Returned(EmptyDataFrame, g.sent, g.completed, Append(p, PrintData(g.data)))
        ELSE IF info_type \notin {"historical_rating", "recommendations"}
             THEN Returned(RenameColumn(Transpose(f.df), "0", "info"),
                           g.sent, g.completed, p)
        ELSE Returned(f.df, g.sent, g.completed, p)

\* The endpoint get_financial_data picks, with as_reported ignored.
financial_endpoint_normalized(dict, report_type, as_reported) == dict[report_type][1]

\* The endpoint get_financial_data picks for a report_type of its table.
financial_endpoint(dict, report_type, as_reported) ==
    IF as_reported /\ report_type # "full_statement"
    THEN dict[report_type][2]
    ELSE dict[report_type][1]

get_financial_data(apikey, symbol, report_type, period, limit, as_reported, resp) ==
    LET dict == report_type_dict(symbol, period, limit, apikey)
        valid == report_type \in DOMAIN dict
        g == IF valid
             THEN requests_get(financial_endpoint(dict, report_type, as_reported), resp)
             ELSE [sent |-> <<>>, completed |-> 0, exc |-> None, data |-> JNull]
        p == IF valid THEN <<>>
             ELSE <<InvalidOption("report_type", report_type,
                        <<"balance_statement", "income_statement", "cashflow_statement",
                          "full_statement">>)>>
        f == from_dict(g.data)
    IN  IF period \notin period_options
        THEN Returned(PyInt(0), <<>>, 0,
                      <<InvalidOption("period", period, <<"annual", "quarter">>)>>)
        ELSE IF g.exc # None THEN Raised(g.exc, g.sent, g.completed, p)
        ELSE IF ~f.ok
             THEN Returned(EmptyDataFrame, g.sent, g.completed, Append(p, PrintData(g.data)))
        ELSE Returned(RenameColumn(f.df, "0", "info"), g.sent, g.completed, p)

\* get_instruments and get_market_news start from df = pd.DataFrame, the
\* class: that is what they return when the coercion raises ValueError.
get_instruments(apikey, asset_type, resp) ==
    LET dict == asset_type_dict(apikey)
        valid == asset_type \in DOMAIN dict
        g == IF valid THEN requests_get(dict[asset_type], resp)
             ELSE [sent |-> <<>>, completed |-> 0, exc |-> None, data |-> JNull]
        p == IF valid THEN <<>>
             ELSE <<InvalidOption("asset_type", asset_type,
                        <<"forex", "stock", "crypto", "commodities">>)>>
        f == from_dict(g.data)
    IN  IF g.exc # None THEN Raised(g.exc, g.sent, g.completed, p)
        ELSE IF ~f.ok
             THEN Returned(DataFrameClass, g.sent, g.completed, Append(p, PrintData(g.data)))
        ELSE Returned(f.df, g.sent, g.completed, p)

get_market_news(apikey, market_type, symbol, limit, resp) ==
    LET dict == market_type_dict(symbol, limit, apikey)
        valid == market_type \in DOMAIN dict
        g == IF valid
             THEN requests_get(dict[market_type][IF symbol # None THEN 2 ELSE 1], resp)
             ELSE [sent |-> <<>>, completed |-> 0, exc |-> None, data |-> JNull]
        p == IF valid THEN <<>>
             ELSE <<InvalidOption("market_type", market_type, <<"stock", "forex", "crypto">>)>>
        f == from_dict(g.data)
    IN  IF g.exc # None THEN Raised(g.exc, g.sent, g.completed, p)
        ELSE IF ~f.ok
             THEN Returned(DataFrameClass, g.sent, g.completed, Append(p, PrintData(g.data)))
        ELSE Returned(f.df, g.sent, g.completed, p)

get_sentiment(apikey, symbol, limit, resp) ==
    LET g == requests_get(sentiment_endpoint(symbol, limit, apikey), resp)
        f == from_dict(g.data)
    IN  IF g.exc # None THEN Raised(g.exc, g.sent, g.completed, <<>>)
        ELSE IF ~f.ok
             THEN Returned(EmptyDataFrame, g.sent, g.completed, <<PrintData(g.data)>>)
        ELSE Returned(f.df, g.sent, g.completed, <<>>)

\* get_daily_prices: only the ValueError of the coercion is caught; the
\* subscript data['historical'], the column df['date'] and pd.to_datetime
\* stand outside any handler that would catch what they raise.
get_daily_prices(apikey, symbol, resp) ==
    LET g == requests_get(daily_prices_endpoint(symbol, apikey), resp)
        data == g.data
        hasHist == data.type = "object" /\ "historical" \in Range(data.keys)
        f == IF hasHist THEN from_dict(data.fields["historical"])
             ELSE [ok |-> FALSE, df |-> EmptyDataFrame]
        p == IF f.ok THEN <<>> ELSE <<PrintData(data)>>
        df == SetAttr(IF f.ok THEN f.df ELSE EmptyDataFrame, "instrument", symbol)
    IN  IF g.exc # None THEN Raised(g.exc, g.sent, g.completed, <<>>)
        ELSE IF data.type # "object" THEN Raised("TypeError", g.sent, g.completed, <<>>)
        ELSE IF ~hasHist THEN Raised("KeyError", g.sent, g.completed, <<>>)
        ELSE IF "date" \notin Range(df.columns)
             THEN Raised("KeyError", g.sent, g.completed, p)
        ELSE IF \E i \in 1..Len(df.rows) : ~Parseable(df.rows[i]["date"])
             THEN Raised("ValueError", g.sent, g.completed, p)
        ELSE Returned(set_index(ConvertColumn(df, "date"), "date"),
                      g.sent, g.completed, p)

-----------------------------------------------------------------------------
(* draw_chart *)

\* chart kinds accepted when the check lets one more kind through.
chart_types_lax == {"candle", "line", "ohlc", "bar"}

\* The chart kinds draw_chart accepts.
chart_types == {"candle", "line", "ohlc"}

IsMonotonicIncreasing(idx) == \A i \in 1..(Len(idx) - 1) : idx[i] <= idx[i + 1]

\* numpy searchsorted on a sorted index: the 0-based position at which v is
\* inserted, before (side 'left') or after (side 'right') the entries equal to v.
RECURSIVE bisect(_, _, _, _, _)
bisect(idx, v, side, lo, hi) ==
    IF lo >= hi THEN lo
    ELSE LET mid == (lo + hi) \div 2
         IN  IF idx[mid + 1] < v \/ (side = "right" /\ idx[mid + 1] = v)
             THEN bisect(idx, v, side, mid + 1, hi)
             ELSE bisect(idx, v, side, lo, mid)

searchsorted(idx, v, side) == bisect(idx, v, side, 0, Len(idx))

\* A slice bound that treats the end like the start: the position of the
\* first entry at or after midnight of the day, whatever the side.
get_slice_bound_halfopen(idx, label, side) ==
    searchsorted(idx, Midnight(DayOf(label)), "left")

\* DatetimeIndex.get_slice_bound for a date string on a monotonic increasing
\* index: the string is cast to the first instant of its day on the left
\* side and to the last instant on the right side, then located.
get_slice_bound(idx, label, side) ==
    searchsorted(idx,
                 IF side = "left" THEN Midnight(DayOf(label)) ELSE EndOfDay(DayOf(label)),
                 side)

\* df.loc[start:end] with either bound possibly None: rows lo..hi-1
\* (0-based) of df; index, columns and attrs go with them.
loc_slice(df, start, end) ==
    LET lo == IF start = None THEN 0 ELSE get_slice_bound(df.index, start, "left")
        hi == IF end = None THEN Len(df.index) ELSE get_slice_bound(df.index, end, "right")
    IN  DataFrame(SubSeq(df.index, lo + 1, hi), df.columns, SubSeq(df.rows, lo + 1, hi),
                  df.attrs)

\* str(Timestamp) of a midnight, as the title's f-string formats it.
FormatTimestamp(t) ==
    CASE t = Midnight(1) -> "2023-01-01 00:00:00" [] t = Midnight(2) -> "2023-01-02 00:00:00"
      [] t = Midnight(3) -> "2023-01-03 00:00:00" [] t = Midnight(4) -> "2023-01-04 00:00:00"
      [] t = Midnight(5) -> "2023-01-05 00:00:00"

\* A title start taken from the first row whatever start is.
start_to_plot_first_row(df, start, end) == FormatTimestamp(df.index[1])

\* start_to_plot as the title shows it: df.index[0], replaced by start in
\* the branches where start is given.
start_to_plot(df, start, end) ==
    IF start # None /\ end = None THEN start
    ELSE IF end # None /\ start = None THEN FormatTimestamp(df.index[1])
    ELSE IF end # None /\ start # None THEN start
    ELSE FormatTimestamp(df.index[1])

\* end_to_plot as the title shows it: df.index[-1], replaced by end in the
\* branches where end is given.
end_to_plot(df, start, end) ==
    IF start # None /\ end = None THEN FormatTimestamp(df.index[Len(df.index)])
    ELSE IF end # None /\ start = None THEN end
    ELSE IF end # None /\ start # None THEN end
    ELSE FormatTimestamp(df.index[Len(df.index)])

\* df_plot of draw_chart
df_plot_of(df, start, end) ==
    IF start # None /\ end = None THEN loc_slice(df, start, None)
    ELSE IF end # None /\ start = None THEN loc_slice(df, None, end)
    ELSE IF end # None /\ start # None THEN loc_slice(df, start, end)
    ELSE df

Column(df, c) == [i \in 1..Len(df.rows) |-> df.rows[i][c]]

NoFigure == [built |-> FALSE]

\* The figure: the volume bars of the lower panel and the price trace of the
\* upper one, each with the x values and the columns it is given.
Figure(dfp, chart_type, title) ==
    [built |-> TRUE, shown |-> TRUE, title |-> title,
     volume |-> [x |-> dfp.index, y |-> Column(dfp, "volume")],
     price |-> CASE chart_type = "line" ->
                      [kind |-> "Scatter", x |-> dfp.index, y |-> Column(dfp, "close")]
                 [] chart_type \in {"candle", "ohlc"} ->
                      [kind |-> IF chart_type = "candle" THEN "Candlestick" ELSE "Ohlc",
                       x |-> dfp.index,
                       open |-> Column(dfp, "open"), high |-> Column(dfp, "high"),
                       low |-> Column(dfp, "low"), close |-> Column(dfp, "close")]
                 [] OTHER -> [kind |-> "none"]]

\* draw_chart: what the call leaves behind, with the accesses made to df
\* (reads) and the figure built.
draw_chart(df, start, end, chart_type) ==
    LET dfp == df_plot_of(df, start, end)
        symbol == dfp.attrs["instrument"]
        interval == IF "interval" \in DOMAIN dfp.attrs THEN dfp.attrs["interval"]
                    ELSE "daily"
        title == [chart_type |-> chart_type, symbol |-> symbol, interval |-> interval,
                  start |-> start_to_plot(df, start, end),
                  end |-> end_to_plot(df, start, end)]
        needed == CASE chart_type = "line" -> {"volume", "close"}
                    [] chart_type \in {"candle", "ohlc"} ->
                         {"volume", "open", "high", "low", "close"}
                    [] OTHER -> {"volume"}
        sliced == IF start # None \/ end # None THEN <<"loc">> ELSE <<>>
    IN  IF chart_type \notin chart_types
        THEN Returned(PyInt(0), <<>>, 0,
                 <<InvalidOption("chart_type", chart_type, <<"candle", "line", "ohlc">>)>>)
             @@ [reads |-> <<>>, figure |-> NoFigure]
        ELSE IF Len(df.index) = 0
             THEN Raised("IndexError", <<>>, 0, <<>>)
                  @@ [reads |-> <<"index">>, figure |-> NoFigure]
        ELSE IF "instrument" \notin DOMAIN dfp.attrs
             THEN Raised("KeyError", <<>>, 0, <<>>)
                  @@ [reads |-> <<"index">> \o sliced \o <<"attrs">>, figure |-> NoFigure]
        ELSE IF ~(needed \subseteq Range(dfp.columns))
             THEN Raised("KeyError", <<>>, 0, <<>>)
                  @@ [reads |-> <<"index">> \o sliced \o <<"attrs", "columns">>,
                      figure |-> NoFigure]
        ELSE Returned(PyNone, <<>>, 0, <<>>)
             @@ [reads |-> <<"index">> \o sliced \o <<"attrs", "columns">>,
                 figure |-> Figure(dfp, chart_type, title)]

-----------------------------------------------------------------------------
(* The state machine *)

NoClient == [constructed |-> FALSE]
Client(apikey) == [constructed |-> TRUE, apikey |-> apikey]
NoArgs == [k \in {} |-> None]

InfoTypes == {"company_profile", "company_rating", "historical_rating", "recommendations",
              "bogus"}
ReportTypes == {"balance_statement", "income_statement", "cashflow_statement",
                "full_statement", "bogus"}
Periods == {"annual", "quarter", "monthly"}
AssetTypes == {"forex", "stock", "crypto", "commodities", "bogus"}
MarketTypes == {"stock", "forex", "crypto", "bogus"}
ChartTypes == {"candle", "line", "ohlc", "bar"}

Init ==
    /\ self = NoClient
    /\ op = "none"
    /\ args = NoArgs
    /\ response = Unsent
    /\ outcome = "none"
    /\ exc = None
    /\ ret = PyNone
    /\ sent = <<>>
    /\ completed = 0
    /\ printed = <<>>
    /\ dfReads = <<>>
    /\ figure = NoFigure

\* The caller is between two calls.
Idle == op = "none"

\* The state a fetch call leaves: R is what the method left behind, resp the
\* transport's answer, recorded when a request was sent.
Leaves(name, a, resp, R) ==
    /\ op' = name
    /\ args' = a
    /\ response' = IF R.sent = <<>> THEN Unsent ELSE resp
    /\ outcome' = R.outcome
    /\ exc' = R.exc
    /\ ret' = R.ret
    /\ sent' = R.sent
    /\ completed' = R.completed
    /\ printed' = R.printed
    /\ dfReads' = <<>>
    /\ figure' = NoFigure

\* FmpConnector(apikey): the caller holds the new client only if __init__
\* returned.
Construct ==
    /\ Idle
    /\ \E apikey \in ApiKeys, resp \in Responses :
          LET R == init_probe(apikey, resp)
          IN  /\ Leaves("__init__", [apikey |-> apikey], resp, R)
              /\ self' = IF R.outcome = "returned" THEN Client(apikey) ELSE self

GetCompanyInfo ==
    /\ Idle /\ self.constructed
    /\ \E symbol \in Symbols, limit \in Limits, info_type \in InfoTypes, resp \in Responses :
          Leaves("get_company_info",
                 [symbol |-> symbol, limit |-> limit, info_type |-> info_type], resp,
                 get_company_info(self.apikey, symbol, limit, info_type, resp))
    /\ UNCHANGED self

GetFinancialData ==
    /\ Idle /\ self.constructed
    /\ \E symbol \in Symbols, report_type \in ReportTypes, period \in Periods,
          limit \in Limits, as_reported \in BOOLEAN, resp \in Responses :
          Leaves("get_financial_data",
                 [symbol |-> symbol, report_type |-> report_type, period |-> period,
                  limit |-> limit, as_reported |-> as_reported], resp,
                 get_financial_data(self.apikey, symbol, report_type, period, limit,
                                    as_reported, resp))
    /\ UNCHANGED self

GetInstruments ==
    /\ Idle /\ self.constructed
    /\ \E asset_type \in AssetTypes, resp \in Responses :
          Leaves("get_instruments", [asset_type |-> asset_type], resp,
                 get_instruments(self.apikey, asset_type, resp))
    /\ UNCHANGED self

GetDailyPrices ==
    /\ Idle /\ self.constructed
    /\ \E symbol \in Symbols, resp \in Responses :
          Leaves("get_daily_prices", [symbol |-> symbol], resp,
                 get_daily_prices(self.apikey, symbol, resp))
    /\ UNCHANGED self

GetMarketNews ==
    /\ Idle /\ self.constructed
    /\ \E market_type \in MarketTypes, symbol \in Symbols \cup {None}, limit \in Limits,
          resp \in Responses :
          Leaves("get_market_news",
                 [market_type |-> market_type, symbol |-> symbol, limit |-> limit], resp,
                 get_market_news(self.apikey, market_type, symbol, limit, resp))
    /\ UNCHANGED self

GetSentiment ==
    /\ Idle /\ self.constructed
    /\ \E symbol \in Symbols, limit \in Limits, resp \in Responses :
          Leaves("get_sentiment", [symbol |-> symbol, limit |-> limit], resp,
                 get_sentiment(self.apikey, symbol, limit, resp))
    /\ UNCHANGED self

\* The tables the caller hands to draw_chart: the table the last call
\* returned, when it is empty or a price table whose dates ascend.
Chartable ==
    /\ op \notin {"none", "draw_chart"}
    /\ outcome = "returned"
    /\ ret.tag = "DataFrame"
    /\ \/ Len(ret.index) = 0
       \/ op = "get_daily_prices" /\ IsMonotonicIncreasing(ret.index)

DrawChart ==
    /\ self.constructed
    /\ Chartable
    /\ \E start \in ArgDates \cup {None}, end \in ArgDates \cup {None},
          chart_type \in ChartTypes :
          LET R == draw_chart(ret, start, end, chart_type)
          IN  /\ op' = "draw_chart"
              /\ args' = [df |-> ret, start |-> start, end |-> end,
                          chart_type |-> chart_type]
              /\ response' = Unsent
              /\ outcome' = R.outcome
              /\ exc' = R.exc
              /\ ret' = R.ret
              /\ sent' = R.sent
              /\ completed' = R.completed
              /\ printed' = R.printed
              /\ dfReads' = R.reads
              /\ figure' = R.figure
    /\ UNCHANGED self

\* The caller drops the result of the last call and goes on.
Drop ==
    /\ ~Idle
    /\ op' = "none"
    /\ args' = NoArgs
    /\ response' = Unsent
    /\ outcome' = "none"
    /\ exc' = None
    /\ ret' = PyNone
    /\ sent' = <<>>
    /\ completed' = 0
    /\ printed' = <<>>
    /\ dfReads' = <<>>
    /\ figure' = NoFigure
    /\ UNCHANGED self

Next ==
    \/ Construct
    \/ GetCompanyInfo
    \/ GetFinancialData
    \/ GetInstruments
    \/ GetDailyPrices
    \/ GetMarketNews
    \/ GetSentiment
    \/ DrawChart
    \/ Drop

Spec == Init /\ [][Next]_vars

-----------------------------------------------------------------------------
(* The supported selector values, as the docstrings list them *)

SupportedInfoTypes ==
    {"company_profile", "company_rating", "historical_rating", "recommendations"}
SupportedReportTypes ==
    {"balance_statement", "income_statement", "cashflow_statement", "full_statement"}
SupportedPeriods == {"annual", "quarter"}
SupportedAssetTypes == {"forex", "stock", "crypto", "commodities"}
SupportedMarketTypes == {"stock", "forex", "crypto"}
SupportedChartTypes == {"candle", "line", "ohlc"}

FetchOps == {"get_company_info", "get_financial_data", "get_instruments",
             "get_daily_prices", "get_market_news", "get_sentiment"}

\* The last call was a fetch with a selector outside its supported set.
InvalidSelectorCall ==
    \/ op = "get_company_info" /\ args.info_type \notin SupportedInfoTypes
    \/ op = "get_financial_data"
       /\ (args.report_type \notin SupportedReportTypes \/ args.period \notin SupportedPeriods)
    \/ op = "get_instruments" /\ args.asset_type \notin SupportedAssetTypes
    \/ op = "get_market_news" /\ args.market_type \notin SupportedMarketTypes

\* The last call was a fetch with every selector in its supported set.
ValidSelectorCall == op \in FetchOps /\ ~InvalidSelectorCall

-----------------------------------------------------------------------------
(* C1 *)

\* C1: a fetch called with a selector value outside the supported set sends
\* no HTTP request, whatever its other arguments are.
C1_NoRequestOnInvalidSelector ==
    InvalidSelectorCall => sent = <<>> /\ completed = 0 /\ response = Unsent

\* An invalid period with an otherwise valid call has been rejected.
C1_Witness ==
    /\ op = "get_financial_data"
    /\ args.period = "monthly"
    /\ args.report_type = "income_statement"
    /\ sent = <<>>

-----------------------------------------------------------------------------
(* C2 *)

\* C2: a fetch called with a selector value outside the supported set does
\* not raise and returns an empty table, for an invalid period as for the
\* other selectors.
C2_InvalidSelectorReturnsEmptyTable ==
    InvalidSelectorCall => outcome = "returned" /\ IsEmptyTable(ret)

-----------------------------------------------------------------------------
(* C3 *)

\* The observations of a body that get_daily_prices can use: an object with
\* a non-empty 'historical' list whose items carry a date that parses.
UsableHistorical(v) ==
    /\ v.type = "object"
    /\ "historical" \in Range(v.keys)
    /\ v.fields["historical"].type = "list"
    /\ Len(v.fields["historical"].items) > 0
    /\ \A i \in 1..Len(v.fields["historical"].items) :
          /\ "date" \in DOMAIN v.fields["historical"].items[i]
          /\ Parseable(v.fields["historical"].items[i]["date"])

\* The body received cannot be coerced into the table the call expects.
Uncoercible ==
    /\ response.state = "received"
    /\ \/ response.body.kind = "text"
       \/ /\ response.body.kind = "json"
          /\ IF op = "get_daily_prices" THEN ~UsableHistorical(response.body.value)
             ELSE ~from_dict(response.body.value).ok

\* C3: a fetch with valid selectors whose response body cannot be coerced
\* into a table prints the content received, does not raise, and returns an
\* empty table.
C3_UncoercibleBodyReturnsEmptyTable ==
    (ValidSelectorCall /\ Uncoercible) =>
        /\ outcome = "returned"
        /\ IsEmptyTable(ret)
        /\ \E i \in 1..Len(printed) : printed[i].what = "data"

-----------------------------------------------------------------------------
(* C4 *)

\* C4: FmpConnector(apikey) completes and yields a client holding apikey,
\* whatever the probe's outcome: 200, a non-200 status with a JSON or a
\* non-JSON body, a transport failure.
C4_ConstructorNeverRaises ==
    op = "__init__" => outcome = "returned" /\ self = Client(args.apikey)

-----------------------------------------------------------------------------
(* C5 *)

\* C5: a fetch with valid selectors sends exactly one HTTP request, whatever
\* the response is, and returns only once that request has been answered.
C5_ExactlyOneRequest ==
    ValidSelectorCall =>
        /\ Len(sent) = 1
        /\ response # Unsent
        /\ completed <= 1
        /\ outcome = "returned" => completed = 1

\* A fetch without a selector has returned after its one request.
C5_Witness ==
    /\ op = "get_sentiment"
    /\ outcome = "returned"
    /\ Len(sent) = 1
    /\ completed = 1

-----------------------------------------------------------------------------
(* C6 *)

\* The path segment naming the statement endpoint the claim expects.
ExpectedStatement(report_type, as_reported) ==
    CASE report_type = "balance_statement" ->
            IF as_reported THEN "balance-sheet-statement-as-reported"
            ELSE "balance-sheet-statement"
      [] report_type = "income_statement" ->
            IF as_reported THEN "income-statement-as-reported" ELSE "income-statement"
      [] report_type = "cashflow_statement" ->
            IF as_reported THEN "cash-flow-statement-as-reported"
            ELSE "cash-flow-statement"
      [] report_type = "full_statement" -> "financial-statement-full-as-reported"

\* C6: get_financial_data with a valid report_type and period requests the
\* as-reported template when as_reported is true and the normalized one
\* otherwise, the single full-statement template for full_statement; the URL
\* carries the symbol as path segment and period and limit as query
\* parameters.
C6_FinancialEndpoint ==
    (op = "get_financial_data" /\ ~InvalidSelectorCall) =>
        /\ Len(sent) = 1
        /\ sent[1].path =
              <<"api", "v3", ExpectedStatement(args.report_type, args.as_reported),
                args.symbol>>
        /\ <<"period", args.period>> \in Range(sent[1].query)
        /\ <<"limit", Str(args.limit)>> \in Range(sent[1].query)

\* The example of the spec: income_statement, quarter, limit 5, as reported.
C6_Witness ==
    /\ op = "get_financial_data"
    /\ args.report_type = "income_statement"
    /\ args.period = "quarter"
    /\ args.limit = 5
    /\ args.as_reported
    /\ Len(sent) = 1
    /\ sent[1].path[3] = "income-statement-as-reported"

-----------------------------------------------------------------------------
(* C7 *)

\* The calendar day of a timestamp.
TimestampDay(t) == t \div 2

\* The positions of df's rows inside the closed window [start, end] of
\* calendar days, in table order; a bound that is None does not bound.
WindowPositions(df, start, end) ==
    SelectSeq([i \in 1..Len(df.index) |-> i],
              LAMBDA i :
                 /\ start # None => DayOf(start) <= TimestampDay(df.index[i])
                 /\ end # None => TimestampDay(df.index[i]) <= DayOf(end))

\* The rows a figure shows, as pairs of date and volume, in order: none when
\* no figure was built.
PlottedRows ==
    IF figure.built
    THEN [k \in 1..Len(figure.volume.x) |-> <<figure.volume.x[k], figure.volume.y[k]>>]
    ELSE <<>>

\* C7: draw_chart with a valid chart kind, on a table whose dates ascend,
\* plots exactly the rows with start <= date <= end, an omitted bound not
\* bounding; the price trace and the volume bars show the same rows, and a
\* table with rows is always plotted.
C7_PlottedRowsAreTheWindow ==
    (op = "draw_chart" /\ args.chart_type \in SupportedChartTypes) =>
        LET sel == WindowPositions(args.df, args.start, args.end)
        IN  /\ PlottedRows =
                  [k \in 1..Len(sel) |->
                     <<args.df.index[sel[k]], args.df.rows[sel[k]]["volume"]>>]
            /\ Len(args.df.index) > 0 =>
                  /\ figure.built
                  /\ figure.price.x = figure.volume.x
                  /\ (IF args.chart_type = "line" THEN figure.price.y
                      ELSE figure.price.close) =
                        [k \in 1..Len(sel) |-> args.df.rows[sel[k]]["close"]]

\* Both bounds given, some rows left out, and the last row plotted is of the
\* end day itself.
C7_Witness ==
    /\ op = "draw_chart"
    /\ figure.built
    /\ args.start # None
    /\ args.end # None
    /\ Len(figure.volume.x) > 0
    /\ Len(figure.volume.x) < Len(args.df.index)
    /\ figure.volume.x[Len(figure.volume.x)] = Midnight(DayOf(args.end))

-----------------------------------------------------------------------------
(* C8 *)

\* C8: draw_chart with a chart_type outside {candle, line, ohlc} prints the
\* invalid option and returns: no figure is built, the table is not read and
\* nothing is raised, whatever the table and the bounds.
C8_InvalidChartTypeDoesNothing ==
    (op = "draw_chart" /\ args.chart_type \notin SupportedChartTypes) =>
        /\ outcome = "returned"
        /\ figure = NoFigure
        /\ dfReads = <<>>
        /\ Len(printed) = 1
        /\ printed[1].what = "invalid option"
        /\ printed[1].param = "chart_type"
        /\ printed[1].value = args.chart_type

\* An unsupported chart kind has been rejected on an empty table.
C8_Witness ==
    /\ op = "draw_chart"
    /\ args.chart_type = "bar"
    /\ Len(args.df.index) = 0
    /\ outcome = "returned"

-----------------------------------------------------------------------------
(* C9 *)

\* The calendar day a START or END text of a title names, for a date string
\* as for a formatted timestamp.
ShownDay(text) ==
    CASE text \in {"2023-01-01", "2023-01-01 00:00:00"} -> 1
      [] text \in {"2023-01-02", "2023-01-02 00:00:00"} -> 2
      [] text \in {"2023-01-03", "2023-01-03 00:00:00"} -> 3
      [] text \in {"2023-01-04", "2023-01-04 00:00:00"} -> 4
      [] text \in {"2023-01-05", "2023-01-05 00:00:00"} -> 5

\* C9 as stated: the START and END of the title are the first and the last
\* date of the rows plotted, for every combination of start and end.
C9_TitleShowsPlottedRange ==
    (op = "draw_chart" /\ figure.built /\ Len(figure.volume.x) > 0) =>
        /\ ShownDay(figure.title.start) = TimestampDay(figure.volume.x[1])
        /\ ShownDay(figure.title.end) =
              TimestampDay(figure.volume.x[Len(figure.volume.x)])

\* C9 amended: the START of the title is the start given, when one is given,
\* and the first date of the whole table otherwise; the END is the end
\* given, when one is given, and the last date of the whole table otherwise.
C9_TitleShowsGivenBounds ==
    (op = "draw_chart" /\ figure.built) =>
        /\ ShownDay(figure.title.start) =
              IF args.start # None THEN DayOf(args.start)
              ELSE TimestampDay(args.df.index[1])
        /\ ShownDay(figure.title.end) =
              IF args.end # None THEN DayOf(args.end)
              ELSE TimestampDay(args.df.index[Len(args.df.index)])

\* A chart drawn with a start earlier than the first row plotted.
C9_Witness ==
    /\ op = "draw_chart"
    /\ figure.built
    /\ args.start # None
    /\ Len(figure.volume.x) > 0
    /\ DayOf(args.start) < TimestampDay(figure.volume.x[1])
    /\ figure.title.start = args.start

-----------------------------------------------------------------------------
(* C10 *)

====
